---------------------------- MODULE Spec2Model ----------------------------
(***************************************************************************)
(* A model of src/main.py (pyPurchaseCart): the line-scanning parser       *)
(* parse_table_data, its helpers clean_text and the price normalisation,   *)
(* the grid mapper extract_table_with_pymupdf_tables and the part of main  *)
(* that chooses between the two producers and keys the records.            *)
(*                                                                         *)
(* A text is a sequence of characters and a character is a one-element     *)
(* token: an ASCII character stands for itself, and the non-ASCII          *)
(* characters the code singles out carry a name ("EUR" is the euro sign,   *)
(* "NBSP" is U+00A0, "THETA" is the Greek capital theta, "e_acute" is the  *)
(* letter the code substitutes for it, "FW5" is the full-width digit       *)
(* five U+FF15).  Cursors into lists are 0-based, as in the code.          *)
(***************************************************************************)
EXTENDS Integers, Sequences, FiniteSets, TLC

VARIABLES
    \* parse_table_data
    text,               \* the argument of parse_table_data
    all_lines,          \* text.split('\n')
    lines,              \* the stripped, non-blank lines
    original_line_map,  \* compact index -> index into all_lines
    i,                  \* the scan cursor
    items,              \* the records appended so far
    pc,                 \* the position of the program
    iter,               \* outer-loop iterations executed (at most Len(lines) + MaxStuck)
    last,               \* what the last outer-loop iteration did
    log,                \* for each appended record, the iteration that appended it
    \* main
    caller,             \* who runs the parser: "parse" (called directly) or "main"
    method,             \* args.method
    mode,               \* "extract", "clipboard" (PDF without a JSON file), "clipboard_json"
    tables,             \* the grids page.find_tables() yields, in document order
    grid_items,         \* what extract_table_with_pymupdf_tables returned
    text_items,         \* what parse_table_data returned
    main_items,         \* the variable items of main
    used_table_method,
    parsed_text,        \* whether main called parse_table_data
    output_data,        \* the keyed mapping, in insertion order
    \* the price normaliser applied on its own
    unit_price_raw,
    unit_price,
    unit_price_again

vars == <<text, all_lines, lines, original_line_map, i, items, pc, iter, last, log,
          caller, method, mode, tables, grid_items, text_items, main_items,
          used_table_method, parsed_text, output_data,
          unit_price_raw, unit_price, unit_price_again>>

parserVars == <<text, all_lines, lines, original_line_map, i, items, iter, last, log>>
mainVars == <<caller, method, mode, tables, grid_items, text_items, main_items,
              used_table_method, parsed_text, output_data>>
priceVars == <<unit_price_raw, unit_price, unit_price_again>>

---------------------------------------------------------------------------
\* Bounds of the model.

MaxLines == 4
MaxPriceLen == 4
MaxTables == 2

\* The outer loop of a terminating parse runs at most Len(lines) times; a
\* parse that does not advance is followed for MaxStuck iterations more.
MaxStuck == 2

---------------------------------------------------------------------------
\* Characters and the character classes of Python's str and re.

Digits == {"0", "1", "2", "3", "4", "5", "6", "7", "8", "9", "FW5"}

UpperAZ == <<"A", "B", "C", "D", "E", "F", "G", "H", "I", "J", "K", "L", "M",
             "N", "O", "P", "Q", "R", "S", "T", "U", "V", "W", "X", "Y", "Z">>

LowerAZ == <<"a", "b", "c", "d", "e", "f", "g", "h", "i", "j", "k", "l", "m",
             "n", "o", "p", "q", "r", "s", "t", "u", "v", "w", "x", "y", "z">>

WhiteSpace == {" ", "NBSP", "TAB"}

CurrencySymbols == {"EUR", "$", "GBP", "YEN", "INR", "CENT", "WON", "ILS", "RUB"}

IsDigit(c) == c \in Digits

IsUpperAZ(c) == \E k \in 1..26 : UpperAZ[k] = c

IsSpace(c) == c \in WhiteSpace

LowerChar(c) ==
    IF IsUpperAZ(c) THEN LowerAZ[CHOOSE k \in 1..26 : UpperAZ[k] = c]
    ELSE IF c = "THETA" THEN "theta"
    ELSE c

Lower(s) == [k \in 1..Len(s) |-> LowerChar(s[k])]

RECURSIVE LStrip(_)
LStrip(s) == IF s # <<>> /\ IsSpace(Head(s)) THEN LStrip(Tail(s)) ELSE s

RECURSIVE RStrip(_)
RStrip(s) ==
    IF s # <<>> /\ IsSpace(s[Len(s)]) THEN RStrip(SubSeq(s, 1, Len(s) - 1)) ELSE s

Strip(s) == RStrip(LStrip(s))

EndsWithSpace(s) == s # <<>> /\ s[Len(s)] = " "

Contains(s, sub) ==
    \E k \in 0..(Len(s) - Len(sub)) : SubSeq(s, k + 1, k + Len(sub)) = sub

RECURSIVE Filter(_, _)
Filter(s, keep) ==
    IF s = <<>> THEN <<>>
    ELSE IF Head(s) \in keep THEN <<Head(s)>> \o Filter(Tail(s), keep)
    ELSE Filter(Tail(s), keep)

RECURSIVE Join(_, _)
Join(ss, sep) ==
    IF ss = <<>> THEN <<>>
    ELSE IF Len(ss) = 1 THEN ss[1]
    ELSE ss[1] \o sep \o Join(Tail(ss), sep)

\* The length of the run of leading digits of s.
RECURSIVE DigitRun(_)
DigitRun(s) == IF s # <<>> /\ IsDigit(Head(s)) THEN 1 + DigitRun(Tail(s)) ELSE 0

AllDigits(s) == \A k \in 1..Len(s) : IsDigit(s[k])

AllSpace(s) == \A k \in 1..Len(s) : IsSpace(s[k])

---------------------------------------------------------------------------
\* clean_text

\* unicodedata.normalize('NFKC', .) on the characters of the model: the
\* full-width digit becomes the ASCII digit, the others are their own
\* normal form.
NFKC(c) == IF c = "FW5" THEN "5" ELSE c

Substitute(c) ==
    IF c = "NBSP" THEN " "
    ELSE IF c \in {"THETA", "OMEGA"} THEN "e_acute"
    ELSE IF c = "GAMMA" THEN "a_circ"
    ELSE IF c \in {"pi_greek", "PHI"} THEN "e_grave"
    ELSE c

\* re.sub(r'\s+', ' ', text)
RECURSIVE CollapseSpaces(_)
CollapseSpaces(s) ==
    IF s = <<>> THEN <<>>
    ELSE IF IsSpace(Head(s))
         THEN <<" ">> \o CollapseSpaces(LStrip(s))
         ELSE <<Head(s)>> \o CollapseSpaces(Tail(s))

clean_text(s) ==
    IF s = <<>> THEN s
    ELSE Strip(CollapseSpaces([k \in 1..Len(s) |-> NFKC(Substitute(s[k]))]))

---------------------------------------------------------------------------
\* The price normalisation of parse_table_data.

\* re.sub(r'[<currency symbols>]\s*', '', s)
RECURSIVE RemoveCurrency(_)
RemoveCurrency(s) ==
    IF s = <<>> THEN <<>>
    ELSE IF Head(s) \in CurrencySymbols THEN RemoveCurrency(LStrip(Tail(s)))
    ELSE <<Head(s)>> \o RemoveCurrency(Tail(s))

\* re.sub(r'[^\d,.]', '', s)
KeepDigitsCommasDots(s) == Filter(s, Digits \cup {",", "."})

\* The first substitution alone.
NormalizePriceNoStrip(s) == RemoveCurrency(s)

NormalizePrice(s) == KeepDigitsCommasDots(RemoveCurrency(s))

\* The digit test left out.
HasDigitSkipped(s) == TRUE

\* re.search(r'\d', s)
HasDigit(s) == \E k \in 1..Len(s) : IsDigit(s[k])

---------------------------------------------------------------------------
\* The patterns of parse_table_data.

\* re.match(r'^([A-Z]\d{6}|\d{4})$', s)
ExactCode(s) ==
    \/ Len(s) = 7 /\ IsUpperAZ(s[1]) /\ AllDigits(SubSeq(s, 2, 7))
    \/ Len(s) = 4 /\ AllDigits(s)

\* re.match(r'^(\d{4})(?:\s|$)', s)
FallbackCode(s) ==
    /\ Len(s) >= 4
    /\ AllDigits(SubSeq(s, 1, 4))
    /\ (Len(s) = 4 \/ IsSpace(s[5]))

\* item_match and item_match.group(1): << >> is None, <<code>> a match.
ItemMatch(s) ==
    IF ExactCode(s) THEN <<s>>
    ELSE IF FallbackCode(s) THEN <<SubSeq(s, 1, 4)>>
    ELSE <<>>

IsItemLine(s) == ExactCode(s) \/ FallbackCode(s)

\* The default quantity given to a code of either shape.
FourDigitCodeAnyShape(code) == TRUE

\* re.match(r'^\d{4}$', item_code)
FourDigitCode(code) == Len(code) = 4 /\ AllDigits(code)

\* The quantity test on the line after the last description line.
QuantityAccepted(next_line) ==
    /\ DigitRun(next_line) > 0
    /\ \/ Contains(Lower(next_line), <<"p", "i">>)
       \/ Contains(Lower(next_line), <<"p", "i", "e", "c", "e">>)
       \/ AllSpace(SubSeq(next_line, DigitRun(next_line) + 1, Len(next_line)))

QuantityOf(next_line) == SubSeq(next_line, 1, DigitRun(next_line))

PieceTokens == {<<"p", "i", "e", "c", "e">>, <<"p", "i", "e_grave", "c", "e">>}

---------------------------------------------------------------------------
\* The inputs of the model: texts of at most MaxLines lines, each line one of
\* the lines below.

CodeLetterLine == <<"A", "1", "2", "3", "4", "5", "6">>
CodeFourLine == <<"1", "2", "3", "4">>
CodeFallbackLine == <<" ", "5", "6", "7", "8", " ", "x">>
OptionLine == <<"O">>
DescLine == <<"M", "6">>
DescContinuedLine == <<"THETA", " ", " ", "6", " ">>
QuantityLine == <<"4">>
QuantityUnitLine == <<"2", " ", "P", "i">>
PieceLine == <<"p", "i", "e", "c", "e">>
PriceLine == <<"EUR", "NBSP", "1", ",", "FW5">>
BlankLine == <<" ">>

RawLines ==
    {CodeLetterLine, CodeFourLine, CodeFallbackLine, OptionLine, DescLine,
     DescContinuedLine, QuantityLine, QuantityUnitLine, PieceLine, PriceLine,
     BlankLine}

SeqsUpTo(S, n) == UNION {[1..k -> S] : k \in 1..n}

Texts == {Join(ls, <<"LF">>) : ls \in SeqsUpTo(RawLines, MaxLines)}

---------------------------------------------------------------------------
\* parse_table_data: the line normaliser.

\* s.split('\n')
RECURSIVE Split(_, _)
Split(s, cur) ==
    IF s = <<>> THEN <<cur>>
    ELSE IF Head(s) = "LF" THEN <<cur>> \o Split(Tail(s), <<>>)
    ELSE Split(Tail(s), Append(cur, Head(s)))

\* [line.strip() for line in all_lines if line.strip()]
RECURSIVE CompactLines(_)
CompactLines(ls) ==
    IF ls = <<>> THEN <<>>
    ELSE IF Strip(Head(ls)) # <<>> THEN <<Strip(Head(ls))>> \o CompactLines(Tail(ls))
    ELSE CompactLines(Tail(ls))

\* original_line_map: entry k + 1 is the 0-based index into all_lines of the
\* compact line k.
RECURSIVE LineMap(_, _)
LineMap(ls, orig_idx) ==
    IF ls = <<>> THEN <<>>
    ELSE IF Strip(Head(ls)) # <<>> THEN <<orig_idx>> \o LineMap(Tail(ls), orig_idx + 1)
    ELSE LineMap(Tail(ls), orig_idx + 1)

Line(k) == lines[k + 1]

\* The original line looked up by the compact index, without the map.
OrigLineUnmapped(k) == all_lines[k + 1]

\* all_lines[original_line_map[i]] if i in original_line_map else lines[i]
OrigLine(k) ==
    IF k + 1 \in DOMAIN original_line_map
    THEN all_lines[original_line_map[k + 1] + 1]
    ELSE Line(k)

---------------------------------------------------------------------------
\* parse_table_data: one iteration of the outer loop, from cursor k.

\* The option marker ignored.
IsOptionNever(k) == FALSE

IsOption(k) == k > 0 /\ Strip(Line(k - 1)) = <<"O">>

\* The inner loop from cursor j with the description lines acc: the cursor
\* it leaves, the description lines, the quantity (<< >> is None), the line
\* it stopped at as the next item code (-1: none) and the line it read the
\* quantity from (-1: none).
RECURSIVE DescriptionLoop(_, _)
DescriptionLoop(j, acc) ==
    IF j >= Len(lines)
    THEN [i |-> j, description_lines |-> acc, quantity |-> <<>>,
          stop_at |-> -1, qty_at |-> -1]
    ELSE IF IsItemLine(Line(j))
    THEN [i |-> j - 1, description_lines |-> acc, quantity |-> <<>>,
          stop_at |-> j, qty_at |-> -1]
    ELSE IF EndsWithSpace(OrigLine(j))
    THEN DescriptionLoop(j + 1, Append(acc, Line(j)))
    ELSE IF j + 1 < Len(lines) /\ QuantityAccepted(Line(j + 1))
    THEN [i |-> j + 2, description_lines |-> Append(acc, Line(j)),
          quantity |-> <<QuantityOf(Line(j + 1))>>,
          stop_at |-> -1, qty_at |-> j + 1]
    ELSE [i |-> j + 1, description_lines |-> Append(acc, Line(j)),
          quantity |-> <<>>, stop_at |-> -1, qty_at |-> -1]

NoItem == [Item |-> <<>>, Description |-> <<>>, Quantity |-> <<>>, UnitPrice |-> <<>>]

NoIteration ==
    [start |-> -1, outcome |-> "none", i |-> 0, item |-> NoItem,
     desc_first |-> -1, desc_count |-> 0, stop_at |-> -1, qty_at |-> -1,
     piece_at |-> -1, price_at |-> -1, total_at |-> -1]

\* What the iteration that starts at cursor k does: its outcome, the cursor it
\* leaves (i), the record it appends (outcome "emit") and the lines it used.
Iteration(k) ==
    LET item_match == ItemMatch(Strip(Line(k)))
        skip == [NoIteration EXCEPT !.start = k, !.i = k + 1]
    IN
    IF item_match = <<>> THEN [skip EXCEPT !.outcome = "no_match"]
    ELSE IF IsOption(k) THEN [skip EXCEPT !.outcome = "option"]
    ELSE
    LET item_code == item_match[1]
        d == DescriptionLoop(k + 1, <<>>)
        seen == [skip EXCEPT !.i = d.i,
                             !.item = [NoItem EXCEPT !.Item = item_code],
                             !.desc_first = IF d.description_lines = <<>> THEN -1 ELSE k + 1,
                             !.desc_count = Len(d.description_lines),
                             !.stop_at = d.stop_at,
                             !.qty_at = d.qty_at]
    IN
    IF d.description_lines = <<>> THEN [seen EXCEPT !.outcome = "no_description"]
    ELSE IF d.quantity = <<>> /\ ~FourDigitCode(item_code)
    THEN [seen EXCEPT !.outcome = "no_quantity"]
    ELSE
    LET quantity == IF d.quantity = <<>> THEN <<"1">> ELSE d.quantity[1]
        description == clean_text(Join(d.description_lines, <<" ">>))
        is_piece == d.i < Len(lines) /\ Lower(Strip(Line(d.i))) \in PieceTokens
        i2 == IF is_piece THEN d.i + 1 ELSE d.i
        resolved == [seen EXCEPT !.i = i2,
                                 !.item = [@ EXCEPT !.Description = description,
                                                    !.Quantity = quantity],
                                 !.piece_at = IF is_piece THEN d.i ELSE -1]
    IN
    IF i2 >= Len(lines) THEN [resolved EXCEPT !.outcome = "no_price"]
    ELSE
    LET price == NormalizePrice(clean_text(Strip(Line(i2))))
        i3 == i2 + 1
        i4 == IF i3 < Len(lines) THEN i3 + 1 ELSE i3
        priced == [resolved EXCEPT !.i = i4,
                                   !.item = [@ EXCEPT !.UnitPrice = price],
                                   !.price_at = i2,
                                   !.total_at = IF i3 < Len(lines) THEN i3 ELSE -1]
    IN
    IF ~HasDigit(price) THEN [priced EXCEPT !.outcome = "no_digit"]
    ELSE [priced EXCEPT !.outcome = "emit"]

---------------------------------------------------------------------------
\* parse_table_data as a state machine.

\* Lines 161-176: split the text, build lines and original_line_map.
SplitLines ==
    /\ pc = "split"
    /\ all_lines' = Split(text, <<>>)
    /\ lines' = CompactLines(all_lines')
    /\ original_line_map' = LineMap(all_lines', 0)
    /\ i' = 0
    /\ items' = <<>>
    /\ pc' = "scan"
    /\ UNCHANGED <<text, iter, last, log>>
    /\ UNCHANGED <<mainVars, priceVars>>

\* An iteration of the outer loop that ends with the given outcome and
\* appends nothing: the cursor moves and the loop goes on.
Continue(outcome) ==
    /\ i < Len(lines)
    /\ iter < Len(lines) + MaxStuck
    /\ LET it == Iteration(i) IN
        /\ it.outcome = outcome
        /\ i' = it.i
        /\ last' = it
    /\ iter' = iter + 1
    /\ UNCHANGED <<text, all_lines, lines, original_line_map, items, log, pc>>
    /\ UNCHANGED <<mainVars, priceVars>>

\* Lines 188-190: the line is no item code.
SkipLine ==
    /\ pc = "scan"
    /\ Continue("no_match")

\* Lines 194-196: the line before the item code is the option marker.
SkipOption ==
    /\ pc = "scan"
    /\ Continue("option")

\* Lines 218-220: no description line.
DiscardNoDescription ==
    /\ pc = "scan"
    /\ Continue("no_description")

\* Lines 221-226: no quantity, and the code is not a four-digit code.
DiscardNoQuantity ==
    /\ pc = "scan"
    /\ Continue("no_quantity")

\* Lines 230-231: no line is left for the price.
DiscardNoPrice ==
    /\ pc = "scan"
    /\ Continue("no_price")

\* Lines 238-239: the normalised price holds no digit.
DiscardNoDigit ==
    /\ pc = "scan"
    /\ Continue("no_digit")

\* Lines 240-247: the record is appended.
EmitItem ==
    /\ pc = "scan"
    /\ i < Len(lines)
    /\ iter < Len(lines) + MaxStuck
    /\ LET it == Iteration(i) IN
        /\ it.outcome = "emit"
        /\ i' = it.i
        /\ last' = it
        /\ items' = Append(items, it.item)
        /\ log' = Append(log, it)
    /\ iter' = iter + 1
    /\ UNCHANGED <<text, all_lines, lines, original_line_map, pc>>
    /\ UNCHANGED <<mainVars, priceVars>>

\* Line 250: the loop is over and the records are returned.
ReturnItems ==
    /\ pc = "scan"
    /\ i >= Len(lines)
    /\ text_items' = items
    /\ IF caller = "main"
       THEN main_items' = items /\ pc' = "serialize"
       ELSE main_items' = main_items /\ pc' = "done"
    /\ UNCHANGED parserVars
    /\ UNCHANGED <<caller, method, mode, tables, grid_items, used_table_method,
                   parsed_text, output_data>>
    /\ UNCHANGED priceVars

ParserNext ==
    \/ SplitLines
    \/ SkipLine
    \/ SkipOption
    \/ DiscardNoDescription
    \/ DiscardNoQuantity
    \/ DiscardNoPrice
    \/ DiscardNoDigit
    \/ EmitItem
    \/ ReturnItems

IdleMain ==
    /\ method = "none"
    /\ mode = "none"
    /\ tables = <<>>
    /\ grid_items = <<>>
    /\ text_items = <<>>
    /\ main_items = <<>>
    /\ used_table_method = FALSE
    /\ parsed_text = FALSE
    /\ output_data = <<>>

IdlePrice ==
    /\ unit_price_raw = <<>>
    /\ unit_price = <<>>
    /\ unit_price_again = <<>>

IdleParser ==
    /\ all_lines = <<>>
    /\ lines = <<>>
    /\ original_line_map = <<>>
    /\ i = 0
    /\ items = <<>>
    /\ iter = 0
    /\ last = NoIteration
    /\ log = <<>>

\* parse_table_data called on its own with a text of Texts.
Init ==
    /\ text \in Texts
    /\ IdleParser
    /\ pc = "split"
    /\ caller = "parse"
    /\ IdleMain
    /\ IdlePrice

Next == ParserNext

Spec == Init /\ [][Next]_vars

---------------------------------------------------------------------------
\* extract_table_with_pymupdf_tables.  A grid (table.extract()) is a
\* sequence of rows, a row a sequence of cells, a cell a text; the code
\* reads a cell only through "if cell" and str(cell), which do not tell None
\* from the empty string, and << >> stands for both.

MetadataKeywords ==
    {<<"o", "f", "f", "r", "e">>,
     <<"r", "e_acute", "f", "e_acute", "r", "e", "n", "c", "e">>,
     <<"c", "l", "i", "e", "n", "t">>,
     <<"i", "d", "e", "n", "t", "i", "f", "i", "c", "a", "t", "i", "o", "n">>,
     <<"d", "a", "t", "e">>,
     <<"c", "o", "n", "d", "i", "t", "i", "o", "n", "s">>,
     <<"c", "o", "n", "s", "u", "l", "t", "a", "n", "t">>,
     <<"m", "e", "e", "t", "i", "n", "g", "r", "o", "o", "m">>}

\* str(n) for n >= 0
RECURSIVE Decimal(_)
Decimal(n) ==
    LET digit == <<"0", "1", "2", "3", "4", "5", "6", "7", "8", "9">>[(n % 10) + 1]
    IN IF n < 10 THEN <<digit>> ELSE Append(Decimal(n \div 10), digit)

\* f'Item{n}'
ItemKey(n) == <<"I", "t", "e", "m">> \o Decimal(n)

\* Lines 272-276: the 0-based index of the first row with a cell containing
\* "item", or -1.
HeaderIndex(table_data) ==
    LET hits == {r \in 1..Len(table_data) :
                    \E c \in 1..Len(table_data[r]) :
                        Contains(Lower(table_data[r][c]), <<"i", "t", "e", "m">>)}
    IN IF hits = {} THEN -1
       ELSE (CHOOSE r \in hits : \A q \in hits : r <= q) - 1

\* Lines 279-287: the class of a header cell.
HeaderClass(header) ==
    IF Contains(header, <<"i", "t", "e", "m">>)
        \/ Contains(header, <<"p", "r", "o", "d", "u", "c", "t">>) THEN "item"
    ELSE IF Contains(header, <<"d", "e", "s", "c", "r", "i", "p", "t", "i", "o", "n">>)
        THEN "description"
    ELSE IF Contains(header, <<"q", "u", "a", "n", "t", "i", "t", "y">>)
        \/ Contains(header, <<"q", "t", "y">>) THEN "quantity"
    ELSE IF Contains(header, <<"p", "r", "i", "c", "e">>)
        \/ Contains(header, <<"u", "n", "i", "t">>) THEN "price"
    ELSE "other"

\* The column of a class: the last header cell of the class (each match
\* overwrites the column index), 0-based, or -1.
ColumnOf(header_row, class) ==
    LET js == {j \in 1..Len(header_row) : HeaderClass(header_row[j]) = class}
    IN IF js = {} THEN -1
       ELSE (CHOOSE j \in js : \A q \in js : q <= j) - 1

\* row_str[col] if col < len(row_str) else ""
CellAt(row_str, col) == IF col < Len(row_str) THEN row_str[col + 1] ELSE <<>>

\* Lines 289-298: the rows that are passed over.
RowSkipped(row_str) ==
    \/ \A c \in 1..Len(row_str) : row_str[c] = <<>>
    \/ Cardinality({c \in 1..Len(row_str) : Strip(row_str[c]) # <<>>}) < 2
    \/ \E keyword \in MetadataKeywords : Contains(Lower(row_str[1]), keyword)

\* Lines 299-314: the record of a row, by the header's columns when all four
\* are resolved and by position otherwise.
RowItem(row_str, header_row, item_counter) ==
    LET item_col == ColumnOf(header_row, "item")
        description_col == ColumnOf(header_row, "description")
        qty_col == ColumnOf(header_row, "quantity")
        price_col == ColumnOf(header_row, "price")
    IN IF header_row # <<>> /\ item_col >= 0 /\ description_col >= 0
            /\ qty_col >= 0 /\ price_col >= 0
       THEN [item_id |-> ItemKey(item_counter),
             Item |-> CellAt(row_str, item_col),
             Description |-> CellAt(row_str, description_col),
             Quantity |-> CellAt(row_str, qty_col),
             UnitPrice |-> CellAt(row_str, price_col)]
       ELSE [item_id |-> ItemKey(item_counter),
             Item |-> CellAt(row_str, 0),
             Description |-> CellAt(row_str, 1),
             Quantity |-> CellAt(row_str, 2),
             UnitPrice |-> CellAt(row_str, 3)]

\* Lines 288-318: the data rows from row r (1-based) of a table on, with the
\* records acc appended so far in the whole document.
RECURSIVE ExtractRows(_, _, _, _)
ExtractRows(table_data, r, header_row, acc) ==
    IF r > Len(table_data) THEN acc
    ELSE IF RowSkipped(table_data[r]) THEN ExtractRows(table_data, r + 1, header_row, acc)
    ELSE LET item == RowItem(table_data[r], header_row, Len(acc) + 1)
         IN IF Strip(item.Quantity) # <<>> \/ Strip(item.UnitPrice) # <<>>
            THEN ExtractRows(table_data, r + 1, header_row, Append(acc, item))
            ELSE ExtractRows(table_data, r + 1, header_row, acc)

\* Lines 269-318 for one table.  item_counter is 1 + the number of records
\* appended so far: it starts at 1 and grows by one with each append.
ExtractTable(table_data, acc) ==
    LET h == HeaderIndex(table_data)
        header_row == IF h < 0 THEN <<>>
                      ELSE [c \in 1..Len(table_data[h + 1]) |-> Lower(table_data[h + 1][c])]
    IN ExtractRows(table_data, IF h < 0 THEN 1 ELSE h + 2, header_row, acc)

RECURSIVE ExtractFrom(_, _)
ExtractFrom(ts, acc) ==
    IF ts = <<>> THEN acc ELSE ExtractFrom(Tail(ts), ExtractTable(Head(ts), acc))

\* The same with item_counter starting again at 1 in every table.
RECURSIVE ExtractCountingPerTable(_)
ExtractCountingPerTable(ts) ==
    IF ts = <<>> THEN <<>>
    ELSE ExtractTable(Head(ts), <<>>) \o ExtractCountingPerTable(Tail(ts))

\* extract_table_with_pymupdf_tables on a document with the tables ts.
ExtractTables(ts) == ExtractFrom(ts, <<>>)

---------------------------------------------------------------------------
\* main: the choice of the producer and the keyed mapping.

\* item without its key 'item_id' (item.pop('item_id', ...)).
WithoutId(item) == [f \in (DOMAIN item) \ {"item_id"} |-> item[f]]

WithoutIds(its) == [n \in 1..Len(its) |-> WithoutId(its[n])]

\* output_data[key] = value on a dict kept in insertion order.
DictSet(d, key, value) ==
    IF \E n \in 1..Len(d) : d[n][1] = key
    THEN [n \in 1..Len(d) |-> IF d[n][1] = key THEN <<key, value>> ELSE d[n]]
    ELSE Append(d, <<key, value>>)

\* Lines 463-466 (and 385-388): the mapping built from the records.
RECURSIVE BuildOutput(_, _)
BuildOutput(its, d) ==
    IF its = <<>> THEN d
    ELSE LET item == Head(its)
             item_id == IF "item_id" \in DOMAIN item THEN item.item_id
                        ELSE ItemKey(Len(d) + 1)
         IN BuildOutput(Tail(its), DictSet(d, item_id, WithoutId(item)))

\* The fallback taken without looking at the records of the table detection.
FallsBackWheneverTextAllowed == method \in {"text", "both"}

\* Line 449, and line 376 in clipboard mode: whether parse_table_data runs.
FallsBackToText ==
    IF mode = "clipboard" THEN main_items = <<>>
    ELSE (main_items = <<>> /\ method \in {"text", "both"}) \/ method = "text"

\* Lines 441-447: table detection, unless the method is "text"; clipboard
\* mode (lines 370-373) always detects.
DetectTables ==
    /\ pc = "main"
    /\ mode \in {"extract", "clipboard"}
    /\ mode = "clipboard" \/ method \in {"table", "both"}
    /\ grid_items' = ExtractTables(tables)
    /\ main_items' = grid_items'
    /\ used_table_method' = TRUE
    /\ pc' = "detected"
    /\ UNCHANGED <<caller, method, mode, tables, text_items, parsed_text, output_data>>
    /\ UNCHANGED <<parserVars, priceVars>>

\* Line 444 when the method is "text": no table detection.
SkipTableDetection ==
    /\ pc = "main"
    /\ mode = "extract"
    /\ method = "text"
    /\ pc' = "detected"
    /\ UNCHANGED <<mainVars, parserVars, priceVars>>

\* Lines 449-453 (376-378): parse_table_data is called.
CallTextParsing ==
    /\ pc = "detected"
    /\ FallsBackToText
    /\ parsed_text' = TRUE
    /\ pc' = "split"
    /\ UNCHANGED <<caller, method, mode, tables, grid_items, text_items, main_items,
                   used_table_method, output_data>>
    /\ UNCHANGED <<parserVars, priceVars>>

\* Line 449 is false: the records of the table detection are kept.
KeepTableItems ==
    /\ pc = "detected"
    /\ ~FallsBackToText
    /\ pc' = "serialize"
    /\ UNCHANGED <<mainVars, parserVars, priceVars>>

\* Lines 462-471 (384-394): the mapping is built and written.  In clipboard
\* mode an empty result ends the program before (lines 380-382).
WriteOutput ==
    /\ pc = "serialize"
    /\ ~(mode = "clipboard" /\ main_items = <<>>)
    /\ output_data' = BuildOutput(main_items, <<>>)
    /\ pc' = "written"
    /\ UNCHANGED <<caller, method, mode, tables, grid_items, text_items, main_items,
                   used_table_method, parsed_text>>
    /\ UNCHANGED <<parserVars, priceVars>>

\* Lines 380-382: clipboard mode with no record at all.
ExitNoData ==
    /\ pc = "serialize"
    /\ mode = "clipboard"
    /\ main_items = <<>>
    /\ pc' = "exit"
    /\ UNCHANGED <<mainVars, parserVars, priceVars>>

\* Lines 350-352 and 398-399: clipboard mode with a JSON file at hand
\* extracts nothing.
UseExistingJson ==
    /\ pc = "main"
    /\ mode = "clipboard_json"
    /\ pc' = "populate"
    /\ UNCHANGED <<mainVars, parserVars, priceVars>>

MainNext ==
    \/ DetectTables
    \/ SkipTableDetection
    \/ CallTextParsing
    \/ KeepTableItems
    \/ WriteOutput
    \/ ExitNoData
    \/ UseExistingJson
    \/ ParserNext

\* The grids of the model.
Cell_Item == <<"I", "t", "e", "m">>
Cell_Description == <<"D", "e", "s", "c", "r", "i", "p", "t", "i", "o", "n">>
Cell_Qty == <<"Q", "t", "y">>
Cell_UnitPrice == <<"U", "n", "i", "t", " ", "P", "r", "i", "c", "e">>
Cell_A1 == <<"A", "1">>
Cell_Foo == <<"F", "o", "o">>
Cell_3 == <<"3">>
Cell_Price == <<"EUR", "5", ",", "0", "0">>
Cell_Date == <<"D", "a", "t", "e">>

HeaderRow == <<Cell_Item, Cell_Description, Cell_Qty, Cell_UnitPrice>>
HeaderRowSwapped == <<Cell_Description, Cell_Item, Cell_UnitPrice, Cell_Qty>>
DataRow == <<Cell_A1, Cell_Foo, Cell_3, Cell_Price>>
DataRowSwapped == <<Cell_Foo, Cell_A1, Cell_Price, Cell_3>>
DataRowNoQuantity == <<Cell_A1, Cell_Foo, <<>>, Cell_Price>>
DataRowNoFigures == <<Cell_A1, Cell_Foo, <<>>, <<" ">>>>
MetadataRow == <<Cell_Date, Cell_3, <<>>, Cell_Price>>
EmptyRow == <<<<>>, <<>>, <<>>, <<>>>>

GridScenario == <<HeaderRow, DataRow>>
GridSwapped == <<HeaderRowSwapped, DataRowSwapped, DataRowSwapped>>
GridNoHeader == <<DataRowNoQuantity, EmptyRow>>
GridNoRecord == <<MetadataRow, HeaderRow, MetadataRow, DataRowNoFigures>>

Grids == {GridScenario, GridSwapped, GridNoHeader, GridNoRecord}

TableLists == UNION {[1..k -> Grids] : k \in 0..MaxTables}

\* The texts main is run on: no line, candidates that are all discarded,
\* one record, two records, and an item code followed by an item code.
TextOfNoRecord ==
    Join(<<OptionLine, CodeFourLine, CodeLetterLine, DescLine, PieceLine,
           CodeFourLine, DescLine, OptionLine, DescLine, CodeFourLine, DescLine>>,
         <<"LF">>)
TextOfOneRecord == Join(<<CodeFourLine, DescLine, PieceLine, PriceLine>>, <<"LF">>)
TextOfTwoRecords ==
    Join(<<CodeFallbackLine, DescContinuedLine, DescLine, PriceLine, QuantityLine,
           BlankLine, CodeLetterLine, DescLine, QuantityUnitLine, PriceLine>>, <<"LF">>)
TextOfTwoCodes == Join(<<CodeFourLine, CodeLetterLine, DescLine>>, <<"LF">>)

MainTexts == {<<>>, TextOfNoRecord, TextOfOneRecord, TextOfTwoRecords, TextOfTwoCodes}

\* main run on a document with the text and the tables drawn from the sets
\* above, in each mode and with each method.
MainInit ==
    /\ text \in MainTexts
    /\ IdleParser
    /\ pc = "main"
    /\ caller = "main"
    /\ method \in {"text", "table", "both"}
    /\ mode \in {"extract", "clipboard", "clipboard_json"}
    /\ tables \in TableLists
    /\ grid_items = <<>>
    /\ text_items = <<>>
    /\ main_items = <<>>
    /\ used_table_method = FALSE
    /\ parsed_text = FALSE
    /\ output_data = <<>>
    /\ IdlePrice

MainSpec == MainInit /\ [][MainNext]_vars

---------------------------------------------------------------------------
\* The price normalisation applied to a token, and to its result again.

PriceChars == {"EUR", "$", " ", "1", "2", ",", ".", "x"}

PriceTokens == UNION {[1..k -> PriceChars] : k \in 0..MaxPriceLen}

\* Lines 234-235.
NormalizeOnce ==
    /\ pc = "price"
    /\ unit_price' = NormalizePrice(unit_price_raw)
    /\ pc' = "price_once"
    /\ UNCHANGED <<unit_price_raw, unit_price_again>>
    /\ UNCHANGED <<parserVars, mainVars>>

\* Lines 234-235 on the normalised token.
NormalizeAgain ==
    /\ pc = "price_once"
    /\ unit_price_again' = NormalizePrice(unit_price)
    /\ pc' = "price_twice"
    /\ UNCHANGED <<unit_price_raw, unit_price>>
    /\ UNCHANGED <<parserVars, mainVars>>

PriceNext ==
    \/ NormalizeOnce
    \/ NormalizeAgain

PriceInit ==
    /\ text = <<>>
    /\ IdleParser
    /\ pc = "price"
    /\ caller = "price"
    /\ IdleMain
    /\ unit_price_raw \in PriceTokens
    /\ unit_price = <<>>
    /\ unit_price_again = <<>>

PriceSpec == PriceInit /\ [][PriceNext]_vars

---------------------------------------------------------------------------
\* Properties of parse_table_data (specification Spec).

Emitted == {log[n] : n \in 1..Len(log)}

\* The original (unstripped) lines of the compact lines, computed from
\* all_lines alone: the non-blank lines, in order.
NonBlankOriginals == SelectSeq(all_lines, LAMBDA l : \E k \in 1..Len(l) : ~IsSpace(l[k]))

\* C1: every record of the result has all four fields Item, Description,
\* Quantity and UnitPrice non-empty, and the records are exactly those of
\* the iterations that ran to the end (no discarded candidate is appended).
C1_AllFieldsNonEmpty ==
    /\ \A n \in 1..Len(items) :
        /\ items[n].Item # <<>>
        /\ items[n].Description # <<>>
        /\ items[n].Quantity # <<>>
        /\ items[n].UnitPrice # <<>>
    /\ last.outcome \in {"no_description", "no_quantity", "no_price", "no_digit"}
        => (\A n \in 1..Len(log) : log[n].start # last.start)

\* A parse that returned a record after an iteration that appended none.
C1_Witness == pc = "done" /\ Len(items) >= 1 /\ iter >= 2

\* C2: every iteration of the outer loop leaves the cursor strictly greater
\* than where the iteration started, so that a parse of n compact lines is
\* over after at most n iterations.
C2_CursorAdvances ==
    /\ last.start >= 0 => i > last.start
    /\ iter <= Len(lines)

\* C3: no record takes its item code from a compact line that follows a
\* line equal to "O"; on such a line the iteration moves the cursor by one
\* and assembles nothing.
C3_OptionSuppressed ==
    /\ \A e \in Emitted : ~(e.start > 0 /\ lines[e.start] = <<"O">>)
    /\ (last.start > 0 /\ lines[last.start] = <<"O">>)
        => /\ i = last.start + 1
           /\ last.outcome \in {"no_match", "option"}
           /\ last.desc_count = 0
           /\ last.price_at = -1

\* An item code right after the option marker has been skipped.
C3_Witness ==
    /\ last.outcome = "option"
    /\ IsItemLine(lines[last.start + 1])
    /\ last.start + 1 < Len(lines)

\* C5: with a description and no quantity token, a four-digit code (also
\* one found by the line-start fallback) gets Quantity "1" and a
\* letter-plus-six-digits code gives no record; every record with a
\* letter-plus-six-digits code has the leading digits of the line right
\* after its last description line as its Quantity.
C5_QuantityResolution ==
    /\ (last.desc_count > 0 /\ last.qty_at = -1)
        => IF Len(last.item.Item) = 4
           THEN last.outcome \in {"no_price", "no_digit", "emit"}
                /\ last.item.Quantity = <<"1">>
           ELSE last.outcome = "no_quantity"
                /\ (\A e \in Emitted : e.start # last.start)
    /\ \A e \in Emitted :
        /\ e.qty_at = -1 => Len(e.item.Item) = 4 /\ e.item.Quantity = <<"1">>
        /\ Len(e.item.Item) = 7 =>
            /\ e.qty_at = e.start + e.desc_count + 1
            /\ e.item.Quantity # <<>>
            /\ AllDigits(e.item.Quantity)
            /\ LET q == lines[e.qty_at + 1] IN
                /\ Len(q) >= Len(e.item.Quantity)
                /\ SubSeq(q, 1, Len(e.item.Quantity)) = e.item.Quantity
                /\ (Len(q) > Len(e.item.Quantity) => ~IsDigit(q[Len(e.item.Quantity) + 1]))

\* A code found by the line-start fallback was given Quantity "1".
C5_Witness ==
    \E e \in Emitted :
        /\ Len(lines[e.start + 1]) > 4
        /\ Len(e.item.Item) = 4
        /\ e.qty_at = -1
        /\ e.item.Quantity = <<"1">>

\* C6: when an item code that is not suppressed is followed by lines
\* d1..dn, none of them an item-code line, where the originals of
\* d1..d(n-1) end with a space and the original of dn does not, the record
\* emitted for that code has d1..dn, joined by single spaces and cleaned,
\* as its Description.
C6_Continuation ==
    \A e \in Emitted : \A n \in 1..Len(lines) :
        (/\ e.start + n < Len(lines)
         /\ \A m \in 1..n : ~IsItemLine(lines[e.start + m + 1])
         /\ \A m \in 1..(n - 1) : EndsWithSpace(NonBlankOriginals[e.start + m + 1])
         /\ ~EndsWithSpace(NonBlankOriginals[e.start + n + 1]))
        => /\ e.item.Description =
                clean_text(Join(SubSeq(lines, e.start + 2, e.start + n + 1), <<" ">>))
           /\ e.desc_first = e.start + 1
           /\ e.desc_count = n

\* A record whose description was joined from two lines, the first of which
\* ends with a space in the text.
C6_Witness ==
    /\ pc = "done"
    /\ \E e \in Emitted :
        /\ EndsWithSpace(all_lines[e.start + 2])
        /\ e.desc_count = 2
        /\ e.item.Description = <<"e_acute", " ", "6", " ", "M", "6">>

\* C10: when the inner loop stops at a line that is an item code, the
\* record being assembled leaves that line alone: it is neither its price
\* line nor its skipped total line, no description line of the record is
\* its price line, and the cursor is left at or before that line, so the
\* scan examines it next as an item start.
C10_NextCodeUnconsumed ==
    last.stop_at >= 0 =>
        /\ last.price_at # last.stop_at
        /\ last.total_at # last.stop_at
        /\ ~(last.desc_count > 0 /\ last.price_at >= last.desc_first
             /\ last.price_at < last.desc_first + last.desc_count)
        /\ i <= last.stop_at

\* C11: when a record is discarded because its normalised price holds no
\* digit, no total line has been skipped for it: the cursor rests on the
\* line right after the price token, so the scan examines that line next
\* as an item start.
C11_NoSkipOnDigitlessPrice ==
    last.outcome = "no_digit" =>
        /\ last.total_at = -1
        /\ i = last.price_at + 1

---------------------------------------------------------------------------
\* Properties of main and of the grid mapper (specification MainSpec).

\* What the grid path yields for the document.
GridYield == ExtractTables(tables)

\* The records of the mapping, in insertion order.
Records(d) == [n \in 1..Len(d) |-> d[n][2]]

\* What parse_table_data returns for the texts of MainTexts, written out
\* (it returns nothing for TextOfTwoCodes, which no run gets past).
TextYield ==
    IF text = TextOfOneRecord
    THEN << [Item |-> <<"1", "2", "3", "4">>,
             Description |-> <<"M", "6">>,
             Quantity |-> <<"1">>,
             UnitPrice |-> <<"1", ",", "5">>] >>
    ELSE IF text = TextOfTwoRecords
    THEN << [Item |-> <<"5", "6", "7", "8">>,
             Description |-> <<"e_acute", " ", "6", " ", "M", "6">>,
             Quantity |-> <<"1">>,
             UnitPrice |-> <<"1", ",", "5">>],
            [Item |-> <<"A", "1", "2", "3", "4", "5", "6">>,
             Description |-> <<"M", "6">>,
             Quantity |-> <<"2">>,
             UnitPrice |-> <<"1", ",", "5">>] >>
    ELSE <<>>

GridRecordsWritten == Records(output_data) = WithoutIds(GridYield) /\ ~parsed_text

TextRecordsWritten ==
    /\ parsed_text
    /\ text_items = TextYield
    /\ Records(output_data) = TextYield

GridPrecedence == IF GridYield # <<>> THEN GridRecordsWritten ELSE TextRecordsWritten

\* C4 as stated: with every method and in clipboard mode, the written
\* output is the grid path's records when it yields any, and the
\* line-scanning result when it yields none.
C4_GridPrecedenceEveryMethod ==
    pc = "written" =>
        IF GridYield # <<>> THEN Records(output_data) = WithoutIds(GridYield)
        ELSE Records(output_data) = TextYield

\* C4 as amended: that holds with the method "both" and in clipboard mode,
\* where the text is parsed only when the grid path yields nothing; with
\* the method "table" the written output is the grid path's records even
\* when there are none and the text is not parsed; with the method "text"
\* it is the line-scanning result and no table detection is run.
C4_GridPrecedence ==
    pc = "written" =>
        IF mode = "clipboard" \/ method = "both" THEN GridPrecedence
        ELSE IF method = "table" THEN GridRecordsWritten
        ELSE TextRecordsWritten /\ ~used_table_method

\* The fallback: a document with tables that yield no record, whose text
\* gives two records, written with the method "both".
C4_Witness ==
    /\ pc = "written"
    /\ mode = "extract"
    /\ method = "both"
    /\ tables # <<>>
    /\ grid_items = <<>>
    /\ parsed_text
    /\ Len(output_data) = 2

\* C7: the grid with the header Item, Description, Qty, Unit Price and the
\* row A1, Foo, 3, (euro sign)5,00 gives exactly the record Item A1,
\* Description Foo, Quantity 3, UnitPrice 5,00.
C7_GridScenario ==
    (pc = "written" /\ tables = <<GridScenario>> /\ used_table_method)
        => output_data =
            << <<ItemKey(1),
                 [Item |-> <<"A", "1">>,
                  Description |-> <<"F", "o", "o">>,
                  Quantity |-> <<"3">>,
                  UnitPrice |-> <<"5", ",", "0", "0">>]>> >>

\* C8: the n-th record, in emission order, is written under the key
\* Item<n>, whichever producer gave the records; the keys are pairwise
\* distinct and the mapping has as many entries as there are records.
C8_RecordKeys ==
    pc = "written" =>
        /\ Len(output_data) = Len(main_items)
        /\ \A n \in 1..Len(output_data) :
            /\ output_data[n][1] = <<"I", "t", "e", "m">> \o Decimal(n)
            /\ output_data[n][2] = WithoutId(main_items[n])
        /\ \A n, m \in 1..Len(output_data) :
            output_data[n][1] = output_data[m][1] => n = m

\* Records of two tables of one document, written under Item1..Item3.
C8_Witness ==
    /\ pc = "written"
    /\ ~parsed_text
    /\ Len(tables) = 2
    /\ Len(ExtractTables(<<tables[1]>>)) = 1
    /\ Len(output_data) = 3
    /\ output_data[3][1] = <<"I", "t", "e", "m", "3">>

---------------------------------------------------------------------------
\* Properties of the price normalisation (specification PriceSpec).

\* C9: the normalised token is the digits, commas and dots of the raw
\* token in their order, and normalising it again gives it back.
C9_PriceIdempotent ==
    /\ pc \in {"price_once", "price_twice"} =>
        /\ \A k \in 1..Len(unit_price) : IsDigit(unit_price[k]) \/ unit_price[k] \in {",", "."}
        /\ unit_price = Filter(unit_price_raw, Digits \cup {",", "."})
    /\ pc = "price_twice" => unit_price_again = unit_price

\* A token with a currency symbol, a space and another character to drop
\* has been normalised twice.
C9_Witness ==
    /\ pc = "price_twice"
    /\ unit_price_raw = <<"EUR", " ", "2", "x">>
    /\ unit_price = <<"2">>
    /\ unit_price_again = <<"2">>

=============================================================================
